---- MODULE Spec2Model ----
(***************************************************************************)
(* git-identitree: the directory-mapping subsystem (internal/mapping), the *)
(* path utilities it uses (internal/utils) and the profile manager         *)
(* (internal/profile).                                                     *)
(*                                                                         *)
(* Lines, directories and fragment paths are strings, and the two regular  *)
(* expressions of the package are matched on them character by character.  *)
(* The bytes of ~/.gitconfig are kept as the lines a bufio.Scanner reads   *)
(* from them plus a flag for a final newline: the bytes are the lines      *)
(* joined by "\n", followed by "\n" when the flag is set (FileBytes).  A   *)
(* file without final newline never ends in an empty line, so every byte   *)
(* string has exactly one such form, and equal forms are equal bytes.      *)
(***************************************************************************)
EXTENDS Integers, Sequences, FiniteSets, TLC

VARIABLES
    gitconfig,   \* ~/.gitconfig: [kind: "absent" | "file" | "dir", lines, nl]
    fragments,   \* ~/.gitconfig-<name> files: path -> [exists, content]
    profiles,    \* Manager.profiles: the in-memory list of Profile records
    stored,      \* profiles.yaml as last written by SaveProfiles
    last,        \* the last call: operation, arguments, result, state before
    calls        \* the map invocations in progress: process -> its position

vars == <<gitconfig, fragments, profiles, stored, last, calls>>

(***************************************************************************)
(* Bounds of the model.                                                    *)
(***************************************************************************)
MaxInitLines == 2    \* lines of a hand-edited initial ~/.gitconfig
MaxProfiles  == 2    \* cap on the length of Manager.profiles
MaxNameLen   == 3    \* characters of a profile name given to extractProfileName
MaxEditLines == 5    \* lines of a ~/.gitconfig given to the two block editors
MaxParseLines == 3   \* lines of a ~/.gitconfig given to ParseMappings alone

(***************************************************************************)
(* Environment: the home directory, the working directory, one symbolic    *)
(* link and the key files that exist on disk.                              *)
(***************************************************************************)
Home       == "/h"
Cwd        == "/w"
LinkPath   == "/l"
LinkTarget == "/a"
KeyFiles   == {"/h/.ssh/k"}

(***************************************************************************)
(* Go strings: package strings, as used by the sources.                    *)
(***************************************************************************)
Char(s, i) == SubSeq(s, i, i)

IsSpace(c) == c \in {" ", "\t"}

RECURSIVE TrimLeft(_)
TrimLeft(s) ==
    IF Len(s) > 0 /\ IsSpace(Char(s, 1)) THEN TrimLeft(Tail(s)) ELSE s

RECURSIVE TrimRight(_)
TrimRight(s) ==
    IF Len(s) > 0 /\ IsSpace(Char(s, Len(s)))
    THEN TrimRight(SubSeq(s, 1, Len(s) - 1))
    ELSE s

TrimSpace(s) == TrimRight(TrimLeft(s))

HasPrefix(s, p) == Len(s) >= Len(p) /\ SubSeq(s, 1, Len(p)) = p

HasSuffix(s, p) ==
    Len(s) >= Len(p) /\ SubSeq(s, Len(s) - Len(p) + 1, Len(s)) = p

TrimPrefix(s, p) ==
    IF HasPrefix(s, p) THEN SubSeq(s, Len(p) + 1, Len(s)) ELSE s

\* index of the first occurrence of sub in s at or after i, 0 if there is none
RECURSIVE IndexFrom(_, _, _)
IndexFrom(s, sub, i) ==
    IF i + Len(sub) - 1 > Len(s) THEN 0
    ELSE IF SubSeq(s, i, i + Len(sub) - 1) = sub THEN i
    ELSE IndexFrom(s, sub, i + 1)

\* strings.Replace(s, old, new, 1)
Replace1(s, old, new) ==
    LET i == IndexFrom(s, old, 1)
    IN  IF i = 0 THEN s
        ELSE SubSeq(s, 1, i - 1) \o new \o SubSeq(s, i + Len(old), Len(s))

\* strings.Join(lines, "\n")
RECURSIVE Join(_)
Join(lines) ==
    IF Len(lines) = 0 THEN ""
    ELSE IF Len(lines) = 1 THEN lines[1]
    ELSE lines[1] \o "\n" \o Join(Tail(lines))

(***************************************************************************)
(* Paths: package path/filepath on a system whose separator is "/".        *)
(***************************************************************************)
\* the elements of a path between separators, empty elements included
RECURSIVE SplitPath(_)
SplitPath(p) ==
    LET i == IndexFrom(p, "/", 1)
    IN  IF i = 0 THEN << p >>
        ELSE << SubSeq(p, 1, i - 1) >> \o SplitPath(SubSeq(p, i + 1, Len(p)))

\* the elements that filepath.Clean keeps of a rooted path
RECURSIVE CleanElems(_, _)
CleanElems(elems, acc) ==
    IF Len(elems) = 0 THEN acc
    ELSE LET e == Head(elems)
         IN  IF e = "" \/ e = "." THEN CleanElems(Tail(elems), acc)
             ELSE IF e = ".."
                  THEN CleanElems(Tail(elems),
                          IF Len(acc) = 0 THEN acc
                          ELSE SubSeq(acc, 1, Len(acc) - 1))
                  ELSE CleanElems(Tail(elems), Append(acc, e))

RECURSIVE JoinElems(_)
JoinElems(elems) ==
    IF Len(elems) = 0 THEN ""
    ELSE "/" \o Head(elems) \o JoinElems(Tail(elems))

\* filepath.Clean of a rooted path
Clean(p) ==
    LET kept == CleanElems(SplitPath(p), << >>)
    IN  IF Len(kept) = 0 THEN "/" ELSE JoinElems(kept)

\* filepath.Join(a, b) with a rooted
PathJoin(a, b) == Clean(a \o "/" \o b)

\* filepath.Abs
Abs(p) == IF HasPrefix(p, "/") THEN Clean(p) ELSE PathJoin(Cwd, p)

\* filepath.EvalSymlinks on a file system with the single link LinkPath
EvalSymlinks(p) ==
    IF p = LinkPath THEN LinkTarget
    ELSE IF HasPrefix(p, LinkPath \o "/")
         THEN LinkTarget \o SubSeq(p, Len(LinkPath) + 1, Len(p))
         ELSE p

RECURSIVE StripTrailingSlashes(_)
StripTrailingSlashes(p) ==
    IF Len(p) > 0 /\ Char(p, Len(p)) = "/"
    THEN StripTrailingSlashes(SubSeq(p, 1, Len(p) - 1))
    ELSE p

\* filepath.Base
Base(p) ==
    IF p = "" THEN "."
    ELSE LET q == StripTrailingSlashes(p)
         IN  IF q = "" THEN "/"
             ELSE LET elems == SplitPath(q) IN elems[Len(elems)]

(***************************************************************************)
(* internal/utils/path.go                                                  *)
(***************************************************************************)
GetHomeDir == Home

NormalizePath(path) ==
    LET expanded == IF HasPrefix(path, "~")
                    THEN Replace1(path, "~", GetHomeDir)
                    ELSE path
    IN  EvalSymlinks(Abs(expanded))

EnsureTrailingSlash(path) ==
    IF path = "" THEN path
    ELSE IF ~HasSuffix(path, "/") /\ ~HasSuffix(path, "\\")
         THEN path \o "/"
         ELSE path

ExpandPath(path) ==
    IF path = "" THEN path
    ELSE IF HasPrefix(path, "~")
         THEN IF path = "~" THEN GetHomeDir
              ELSE LET rest == TrimPrefix(TrimPrefix(TrimPrefix(path, "~"),
                                                     "/"), "\\")
                   IN  IF rest = "" THEN GetHomeDir \o "/"
                       ELSE PathJoin(GetHomeDir, rest)
         ELSE path

(***************************************************************************)
(* The bytes of a file.                                                    *)
(***************************************************************************)
\* nl only with at least one line; without nl the last line is not empty
File(lines, nl) == [kind |-> "file", lines |-> lines, nl |-> nl]

Absent == [kind |-> "absent", lines |-> << >>, nl |-> FALSE]

NotAFile == [kind |-> "dir", lines |-> << >>, nl |-> FALSE]

FileBytes(file) == Join(file.lines) \o (IF file.nl THEN "\n" ELSE "")

\* os.WriteFile(path, strings.Join(lines, "\n")): a last line that is empty
\* leaves only the newline before it, and a single empty line leaves nothing
WriteFile(lines) ==
    IF Len(lines) = 0 THEN File(<< >>, FALSE)
    ELSE IF lines[Len(lines)] # "" THEN File(lines, FALSE)
    ELSE IF Len(lines) = 1 THEN File(<< >>, FALSE)
    ELSE File(SubSeq(lines, 1, Len(lines) - 1), TRUE)

(***************************************************************************)
(* Inputs of the calls.                                                    *)
(***************************************************************************)
Profile(name, email, author, key, gpg) ==
    [Name |-> name, Email |-> email, AuthorName |-> author,
     SSHKeyPath |-> key, GPGKeyID |-> gpg]

NoProfile == Profile("", "", "", "", "")

\* Profile.GetAuthorName
GetAuthorName(p) == IF p.AuthorName # "" THEN p.AuthorName ELSE p.Name

Names == {"work", "home"}

\* profiles given to the mapping calls
MapProfiles ==
    { Profile("work", "w@y", "W", "~/.ssh/k", "G1"),
      Profile("home", "h@x", "", "", "") }

\* profiles given to the manager: also a second profile named work and one
\* whose key file does not exist
ProfileInputs ==
    MapProfiles \cup { Profile("work", "w@x", "", "", ""),
                       Profile("home", "h@x", "H", "~/.ssh/none", "") }

\* characters of the profile names given to extractProfileName
NameChars == {"a", "-", "."}

RECURSIVE StringsUpTo(_, _)
StringsUpTo(chars, n) ==
    IF n = 0 THEN { "" }
    ELSE LET shorter == StringsUpTo(chars, n - 1)
         IN  shorter \cup { s \o c : s \in shorter, c \in chars }

\* profile names that are valid parts of a file name
NameInputs == StringsUpTo(NameChars, MaxNameLen)

\* directories given to map and unmap: the link to /a, and /a/b
MapDirs == {"/l", "/a/b/"}

\* directories looked up
LookupDirs == {"/a/b", "/a/b/c", "/a/bc"}

\* directories as ParseMappings returns them, given back to UnmapDirectory
ParsedDirs == {"/a/b/", "/a/"}

\* a directory whose name ends with a backslash, and its sibling whose name
\* starts with that name
BackslashDirs == {"/a/b\\", "/a/b\\c"}

\* lines a user may have put into ~/.gitconfig by hand
LinePool ==
    { "",
      "[user]",
      "\tname = x",
      "  [includeIf \"gitdir/i:/a/b\"]",
      "    path = ~/.gitconfig-work" }

(***************************************************************************)
(* The two regular expressions of internal/mapping.                        *)
(***************************************************************************)
\* ^\s*\[includeIf\s+"gitdir/i:(.+)"\]\s*$ : the part of the line after the
\* opening `[includeIf`, blanks and `"gitdir/i:`, or "" when the line does
\* not start that way
IncludeIfTail(line) ==
    LET s1 == TrimLeft(line)
    IN  IF ~HasPrefix(s1, "[includeIf") THEN ""
        ELSE LET s2 == TrimPrefix(s1, "[includeIf")
             IN  IF ~(Len(s2) > 0 /\ IsSpace(Char(s2, 1))) THEN ""
                 ELSE LET s3 == TrimLeft(s2)
                      IN  IF ~HasPrefix(s3, "\"gitdir/i:") THEN ""
                          ELSE TrimRight(TrimPrefix(s3, "\"gitdir/i:"))

\* includeIfRegex.FindStringSubmatch(line) != nil
IncludeIfMatches(line) ==
    LET t == IncludeIfTail(line) IN HasSuffix(t, "\"]") /\ Len(t) >= 3

\* matches[1] of includeIfRegex: the greedy (.+) before the closing `"]`
IncludeIfDir(line) ==
    LET t == IncludeIfTail(line) IN SubSeq(t, 1, Len(t) - 2)

\* ^\s*path\s*=\s*(.+)\s*$ : what follows the `=`, or "" when the line does
\* not start with `path =`
PathTail(line) ==
    LET s1 == TrimLeft(line)
    IN  IF ~HasPrefix(s1, "path") THEN ""
        ELSE LET s2 == TrimLeft(TrimPrefix(s1, "path"))
             IN  IF ~HasPrefix(s2, "=") THEN "" ELSE TrimPrefix(s2, "=")

\* pathRegex.MatchString(line)
PathMatches(line) == Len(PathTail(line)) >= 1

\* matches[1] of pathRegex: \s* is greedy and gives back one blank only when
\* nothing else is left for (.+)
PathValue(line) ==
    LET Captured(t) == IF TrimLeft(t) = "" THEN Char(t, Len(t))
                       ELSE TrimLeft(t)
    IN  Captured(PathTail(line))

(***************************************************************************)
(* The lines the editor writes, and what the code computes from one line.  *)
(***************************************************************************)
FragmentPath(name) == PathJoin(GetHomeDir, ".gitconfig-" \o name)

\* the fragment path as addIncludeIfBlock writes it
TildePath(configPath) ==
    IF HasPrefix(configPath, GetHomeDir)
    THEN Replace1(configPath, GetHomeDir, "~")
    ELSE configPath

HeaderLine(dir) == "[includeIf \"gitdir/i:" \o dir \o "\"]"

PathLine(configPath) == "    path = " \o configPath

\* variant: strips the prefix without its dash
extractProfileName_KeepsDash(configPath) ==
    LET base == Base(configPath)
    IN  IF HasPrefix(base, ".gitconfig-")
        THEN TrimPrefix(base, ".gitconfig")
        ELSE ""

extractProfileName(configPath) ==
    LET base == Base(configPath)
    IN  IF HasPrefix(base, ".gitconfig-")
        THEN TrimPrefix(base, ".gitconfig-")
        ELSE ""

\* the path line of ParseMappings: the value with a leading ~ expanded
ExpandedPathValue(line) ==
    LET Expanded(configPath) ==
            IF HasPrefix(configPath, "~")
            THEN Replace1(configPath, "~", GetHomeDir)
            ELSE configPath
    IN  Expanded(TrimSpace(PathValue(line)))

\* the directory a header line is compared by
HeaderDirectory(line) ==
    EnsureTrailingSlash(NormalizePath(IncludeIfDir(line)))

\* every line that can occur in ~/.gitconfig: the lines put in by hand, and
\* the headers and path lines the editor can write for the inputs
AllLines ==
    LinePool
    \cup { HeaderLine(EnsureTrailingSlash(NormalizePath(d))) : d \in MapDirs }
    \cup { HeaderLine(d) : d \in MapDirs \cup BackslashDirs }
    \cup { PathLine(TildePath(FragmentPath(n))) : n \in Names }

\* what ParseMappings (on the trimmed line) and the editor (on the line as
\* read) compute from one line, evaluated once per line
LineFacts ==
    [l \in AllLines |->
        LET t == TrimSpace(l)
        IN  [trimmed      |-> t,
             parseHeader  |-> IncludeIfMatches(t),
             parseDir     |-> IF IncludeIfMatches(t)
                              THEN HeaderDirectory(t) ELSE "",
             parsePath    |-> PathMatches(t),
             parseConfig  |-> IF PathMatches(t)
                              THEN ExpandedPathValue(t) ELSE "",
             parseProfile |-> IF PathMatches(t)
                              THEN extractProfileName(ExpandedPathValue(t))
                              ELSE "",
             parseSection |-> HasPrefix(t, "["),
             editHeader   |-> IncludeIfMatches(l),
             editDir      |-> IF IncludeIfMatches(l)
                              THEN HeaderDirectory(l) ELSE "",
             editPath     |-> PathMatches(l)]]

\* variant: the directory is used as it was given
NormalizedDir_AsGiven == [d \in MapDirs \cup LookupDirs \cup ParsedDirs \cup BackslashDirs |-> d]

\* the normalized, slash-terminated form of every directory given to a call
NormalizedDir ==
    [d \in MapDirs \cup LookupDirs \cup ParsedDirs \cup BackslashDirs |->
        EnsureTrailingSlash(NormalizePath(d))]

(***************************************************************************)
(* internal/mapping/parser.go                                              *)
(***************************************************************************)
\* variant: a header seen while a header is pending does not replace it
RECURSIVE ParseLoop_FirstHeaderWins(_, _, _, _)
ParseLoop_FirstHeaderWins(lines, currentDir, inIncludeIfBlock, mappings) ==
    IF Len(lines) = 0 THEN mappings
    ELSE LET rest == Tail(lines)
             Step(line) ==
                 IF line.parseHeader
                 THEN ParseLoop_FirstHeaderWins(rest,
                          IF inIncludeIfBlock THEN currentDir
                          ELSE line.parseDir,
                          TRUE, mappings)
                 ELSE IF inIncludeIfBlock /\ line.parsePath
                 THEN ParseLoop_FirstHeaderWins(rest, "", FALSE,
                          Append(mappings,
                                 [Directory  |-> currentDir,
                                  Profile    |-> line.parseProfile,
                                  ConfigPath |-> line.parseConfig]))
                 ELSE IF inIncludeIfBlock /\ line.parseSection
                 THEN ParseLoop_FirstHeaderWins(rest, "", FALSE, mappings)
                 ELSE ParseLoop_FirstHeaderWins(rest, currentDir,
                                                inIncludeIfBlock, mappings)
         IN  Step(LineFacts[Head(lines)])

\* variant: another section header does not end the pending block
RECURSIVE ParseLoop_SectionKeeps(_, _, _, _)
ParseLoop_SectionKeeps(lines, currentDir, inIncludeIfBlock, mappings) ==
    IF Len(lines) = 0 THEN mappings
    ELSE LET rest == Tail(lines)
             Step(line) ==
                 IF line.parseHeader
                 THEN ParseLoop_SectionKeeps(rest, line.parseDir, TRUE,
                                             mappings)
                 ELSE IF inIncludeIfBlock /\ line.parsePath
                 THEN ParseLoop_SectionKeeps(rest, "", FALSE,
                          Append(mappings,
                                 [Directory  |-> currentDir,
                                  Profile    |-> line.parseProfile,
                                  ConfigPath |-> line.parseConfig]))
                 ELSE ParseLoop_SectionKeeps(rest, currentDir,
                                             inIncludeIfBlock, mappings)
         IN  Step(LineFacts[Head(lines)])

\* the scanner loop of ParseMappings over the remaining lines
RECURSIVE ParseLoop(_, _, _, _)
ParseLoop(lines, currentDir, inIncludeIfBlock, mappings) ==
    IF Len(lines) = 0 THEN mappings
    ELSE LET rest == Tail(lines)
             Step(line) ==
                 IF line.parseHeader
                 THEN ParseLoop(rest, line.parseDir, TRUE, mappings)
                 ELSE IF inIncludeIfBlock /\ line.parsePath
                 THEN ParseLoop(rest, "", FALSE,
                          Append(mappings,
                                 [Directory  |-> currentDir,
                                  Profile    |-> line.parseProfile,
                                  ConfigPath |-> line.parseConfig]))
                 ELSE IF inIncludeIfBlock /\ line.parseSection
                 THEN ParseLoop(rest, "", FALSE, mappings)
                 ELSE ParseLoop(rest, currentDir, inIncludeIfBlock, mappings)
         IN  Step(LineFacts[Head(lines)])

\* ParseMappings: err is set when the file cannot be read
ParseMappings(cfg) ==
    IF cfg.kind = "absent" THEN [err |-> FALSE, mappings |-> << >>]
    ELSE IF cfg.kind = "dir" THEN [err |-> TRUE, mappings |-> << >>]
    ELSE [err |-> FALSE,
          mappings |-> ParseLoop(cfg.lines, "", FALSE, << >>)]

NoMapping == [Directory |-> "", Profile |-> "", ConfigPath |-> ""]

IsProfileMapped(cfg, profileName) ==
    LET Answer(parsed) ==
            [err    |-> parsed.err,
             mapped |-> ~parsed.err /\ \E i \in 1..Len(parsed.mappings) :
                            parsed.mappings[i].Profile = profileName]
    IN  Answer(ParseMappings(cfg))

\* the first loop of GetMappingForDirectory: exact match
RECURSIVE ExactLoop(_, _)
ExactLoop(mappings, normalized) ==
    IF Len(mappings) = 0 THEN [found |-> FALSE, m |-> NoMapping]
    ELSE IF Head(mappings).Directory = normalized
    THEN [found |-> TRUE, m |-> Head(mappings)]
    ELSE ExactLoop(Tail(mappings), normalized)

\* the second loop of GetMappingForDirectory: prefix match
RECURSIVE PrefixLoop(_, _)
PrefixLoop(mappings, normalized) ==
    IF Len(mappings) = 0 THEN [found |-> FALSE, m |-> NoMapping]
    ELSE IF HasPrefix(normalized, Head(mappings).Directory)
    THEN [found |-> TRUE, m |-> Head(mappings)]
    ELSE PrefixLoop(Tail(mappings), normalized)

\* variant: the prefix loop runs first
GetMappingForDirectory_PrefixFirst(cfg, dir) ==
    LET Found(exact, prefix) ==
            IF prefix.found
            THEN [err |-> FALSE, found |-> TRUE, m |-> prefix.m]
            ELSE [err |-> FALSE, found |-> exact.found, m |-> exact.m]
        Search(normalized, parsed) ==
            IF parsed.err
            THEN [err |-> TRUE, found |-> FALSE, m |-> NoMapping]
            ELSE Found(ExactLoop(parsed.mappings, normalized),
                       PrefixLoop(parsed.mappings, normalized))
    IN  Search(NormalizedDir[dir], ParseMappings(cfg))

GetMappingForDirectory(cfg, dir) ==
    LET Found(exact, prefix) ==
            IF exact.found
            THEN [err |-> FALSE, found |-> TRUE, m |-> exact.m]
            ELSE [err |-> FALSE, found |-> prefix.found, m |-> prefix.m]
        Search(normalized, parsed) ==
            IF parsed.err
            THEN [err |-> TRUE, found |-> FALSE, m |-> NoMapping]
            ELSE Found(ExactLoop(parsed.mappings, normalized),
                       PrefixLoop(parsed.mappings, normalized))
    IN  Search(NormalizedDir[dir], ParseMappings(cfg))

\* variant: the profile of a mapping is not compared
GetDirectoriesForProfile_AnyProfile(cfg, profileName) ==
    LET Answer(parsed) ==
            [err |-> parsed.err,
             directories |-> [i \in 1..Len(parsed.mappings) |->
                                 parsed.mappings[i].Directory]]
    IN  Answer(ParseMappings(cfg))

GetDirectoriesForProfile(cfg, profileName) ==
    LET Test(m) == m.Profile = profileName
        Directories(chosen) ==
            [i \in 1..Len(chosen) |-> chosen[i].Directory]
        Answer(parsed) ==
            [err |-> parsed.err,
             directories |-> Directories(SelectSeq(parsed.mappings, Test))]
    IN  Answer(ParseMappings(cfg))

(***************************************************************************)
(* internal/mapping/gitconfig.go                                           *)
(***************************************************************************)
FragmentContent(prof) ==
    "[user]\n"
    \o "    name = " \o prof.Name \o "\n"
    \o "    email = " \o prof.Email \o "\n"
    \o (IF prof.GPGKeyID # ""
        THEN "    signingkey = " \o prof.GPGKeyID \o "\n" ELSE "")
    \o (IF prof.SSHKeyPath # ""
        THEN "\n[core]\n    sshCommand = ssh -i " \o prof.SSHKeyPath
             \o " -F /dev/null\n"
        ELSE "")

\* generateProfileConfig; writeOk is whether os.WriteFile succeeds
generateProfileConfig(frags, prof, writeOk) ==
    LET configPath == FragmentPath(prof.Name)
    IN  IF ~writeOk
        THEN [err |-> TRUE, configPath |-> "", frags |-> frags]
        ELSE [err |-> FALSE, configPath |-> configPath,
              frags |-> [q \in DOMAIN frags \cup {configPath} |->
                            IF q = configPath
                            THEN [exists |-> TRUE,
                                  content |-> FragmentContent(prof)]
                            ELSE frags[q]]]

\* writeGitConfig: the path is a directory, or the write fails, or the file
\* becomes the lines joined by newlines
writeGitConfig(cfg, lines, writeOk) ==
    IF cfg.kind = "dir" \/ ~writeOk
    THEN [err |-> TRUE, cfg |-> cfg]
    ELSE [err |-> FALSE, cfg |-> WriteFile(lines)]

HeaderIsFor(line, dir) ==
    LET Test(facts) == facts.editHeader /\ facts.editDir = dir
    IN  Test(LineFacts[line])

\* the search loop of addIncludeIfBlock from line i on: the index of the
\* first header for dir whose next line is a path line, 0 if there is none
RECURSIVE AddLoop(_, _, _)
AddLoop(lines, i, dir) ==
    IF i > Len(lines) THEN 0
    ELSE IF /\ HeaderIsFor(lines[i], dir)
            /\ i + 1 <= Len(lines)
            /\ PathMatches(lines[i + 1])
    THEN i
    ELSE AddLoop(lines, i + 1, dir)

\* variant: the line after the first header for dir is rewritten whatever
\* it holds
addIncludeIfBlock_AnyNextLine(cfg, dir, configPath, writeOk) ==
    LET lines == IF cfg.kind = "file" THEN cfg.lines ELSE << >>
        hits == { i \in 1..(Len(lines) - 1) : HeaderIsFor(lines[i], dir) }
        Write(i, pathLine) ==
            IF i # 0
            THEN writeGitConfig(cfg, [lines EXCEPT ![i + 1] = pathLine],
                                writeOk)
            ELSE writeGitConfig(cfg,
                     lines \o << "", HeaderLine(dir), pathLine >>,
                     writeOk)
    IN  IF cfg.kind = "dir" THEN [err |-> TRUE, cfg |-> cfg]
        ELSE Write(IF hits = {} THEN 0
                   ELSE CHOOSE i \in hits : \A j \in hits : i <= j,
                   PathLine(TildePath(configPath)))

\* addIncludeIfBlock: the result and ~/.gitconfig afterwards
addIncludeIfBlock(cfg, dir, configPath, writeOk) ==
    LET lines == IF cfg.kind = "file" THEN cfg.lines ELSE << >>
        Write(i, pathLine) ==
            IF i # 0
            THEN writeGitConfig(cfg, [lines EXCEPT ![i + 1] = pathLine],
                                writeOk)
            ELSE writeGitConfig(cfg,
                     lines \o << "", HeaderLine(dir), pathLine >>,
                     writeOk)
    IN  IF cfg.kind = "dir" THEN [err |-> TRUE, cfg |-> cfg]
        ELSE Write(AddLoop(lines, 1, dir), PathLine(TildePath(configPath)))

\* variant: the clean-up removes the last kept line whatever it holds
RECURSIVE RemoveLoop_PopsAny(_, _, _, _, _)
RemoveLoop_PopsAny(lines, i, skipNext, newLines, dir) ==
    IF i > Len(lines) THEN newLines
    ELSE IF skipNext THEN RemoveLoop_PopsAny(lines, i + 1, FALSE, newLines, dir)
    ELSE IF HeaderIsFor(lines[i], dir)
    THEN RemoveLoop_PopsAny(lines, i + 1, TRUE,
             IF i > 1 /\ Len(newLines) > 0
             THEN SubSeq(newLines, 1, Len(newLines) - 1)
             ELSE newLines,
             dir)
    ELSE RemoveLoop_PopsAny(lines, i + 1, FALSE, Append(newLines, lines[i]),
                            dir)

\* the filter loop of removeIncludeIfBlock from line i on
RECURSIVE RemoveLoop(_, _, _, _, _)
RemoveLoop(lines, i, skipNext, newLines, dir) ==
    IF i > Len(lines) THEN newLines
    ELSE IF skipNext THEN RemoveLoop(lines, i + 1, FALSE, newLines, dir)
    ELSE IF HeaderIsFor(lines[i], dir)
    THEN RemoveLoop(lines, i + 1, TRUE,
             IF /\ i > 1
                /\ TrimSpace(lines[i - 1]) = ""
                /\ Len(newLines) > 0
                /\ TrimSpace(newLines[Len(newLines)]) = ""
             THEN SubSeq(newLines, 1, Len(newLines) - 1)
             ELSE newLines,
             dir)
    ELSE RemoveLoop(lines, i + 1, FALSE, Append(newLines, lines[i]), dir)

\* variant: the filter loop leaves the first line alone
removeIncludeIfBlock_FromSecondLine(cfg, dir, writeOk) ==
    IF cfg.kind # "file" THEN [err |-> TRUE, cfg |-> cfg]
    ELSE writeGitConfig(cfg,
             RemoveLoop(cfg.lines, 2, FALSE,
                        IF cfg.lines = << >> THEN << >>
                        ELSE << cfg.lines[1] >>,
                        dir),
             writeOk)

\* variant: a file that cannot be opened is read as an empty list of lines
removeIncludeIfBlock_MissingIsEmpty(cfg, dir, writeOk) ==
    IF cfg.kind = "dir" THEN [err |-> TRUE, cfg |-> cfg]
    ELSE writeGitConfig(cfg, RemoveLoop(cfg.lines, 1, FALSE, << >>, dir),
                        writeOk)

\* removeIncludeIfBlock: the result and ~/.gitconfig afterwards
removeIncludeIfBlock(cfg, dir, writeOk) ==
    IF cfg.kind # "file" THEN [err |-> TRUE, cfg |-> cfg]
    ELSE writeGitConfig(cfg, RemoveLoop(cfg.lines, 1, FALSE, << >>, dir),
                        writeOk)

\* variant: the loop reports no mapping for the directory
DuplicateLoop_NeverFound(mappings, normalizedDir) ==
    [found |-> FALSE, m |-> NoMapping]

\* variant: the loop starts at the second mapping
DuplicateLoop_FromSecond(mappings, normalizedDir) ==
    LET hits == { i \in 2..Len(mappings) :
                    mappings[i].Directory = normalizedDir }
    IN  IF hits = {} THEN [found |-> FALSE, m |-> NoMapping]
        ELSE [found |-> TRUE,
              m |-> mappings[CHOOSE i \in hits : \A j \in hits : i <= j]]

\* the loop of MapProfileToDirectory over the existing mappings
RECURSIVE DuplicateLoop(_, _)
DuplicateLoop(mappings, normalizedDir) ==
    IF Len(mappings) = 0 THEN [found |-> FALSE, m |-> NoMapping]
    ELSE IF Head(mappings).Directory = normalizedDir
    THEN [found |-> TRUE, m |-> Head(mappings)]
    ELSE DuplicateLoop(Tail(mappings), normalizedDir)

\* variant: the fragment is written before the duplicate check
MapProfileToDirectory_WritesFirst(cfg, frags, prof, dir, fragOk, writeOk) ==
    LET Added(gen, add) ==
            IF add.err
            THEN [err |-> "add_block", errProfile |-> "", cfg |-> cfg,
                  frags |-> gen.frags]
            ELSE [err |-> "", errProfile |-> "", cfg |-> add.cfg,
                  frags |-> gen.frags]
        Checked(normalizedDir, dup, gen) ==
            IF gen.err
            THEN [err |-> "generate", errProfile |-> "", cfg |-> cfg,
                  frags |-> frags]
            ELSE IF dup.found
            THEN [err |-> "already_mapped", errProfile |-> dup.m.Profile,
                  cfg |-> cfg, frags |-> gen.frags]
            ELSE Added(gen, addIncludeIfBlock(cfg, normalizedDir,
                                              gen.configPath, writeOk))
        Start(normalizedDir, parsed) ==
            IF parsed.err
            THEN [err |-> "parse", errProfile |-> "", cfg |-> cfg,
                  frags |-> frags]
            ELSE Checked(normalizedDir,
                         DuplicateLoop(parsed.mappings, normalizedDir),
                         generateProfileConfig(frags, prof, fragOk))
    IN  Start(NormalizedDir[dir], ParseMappings(cfg))

\* variant: a mapping to the same profile is not a conflict
MapProfileToDirectory_SameAllowed(cfg, frags, prof, dir, fragOk, writeOk) ==
    LET Added(gen, add) ==
            IF add.err
            THEN [err |-> "add_block", errProfile |-> "", cfg |-> cfg,
                  frags |-> gen.frags]
            ELSE [err |-> "", errProfile |-> "", cfg |-> add.cfg,
                  frags |-> gen.frags]
        Generated(normalizedDir, gen) ==
            IF gen.err
            THEN [err |-> "generate", errProfile |-> "", cfg |-> cfg,
                  frags |-> frags]
            ELSE Added(gen, addIncludeIfBlock(cfg, normalizedDir,
                                              gen.configPath, writeOk))
        Checked(normalizedDir, dup) ==
            IF dup.found /\ dup.m.Profile # prof.Name
            THEN [err |-> "already_mapped", errProfile |-> dup.m.Profile,
                  cfg |-> cfg, frags |-> frags]
            ELSE Generated(normalizedDir,
                           generateProfileConfig(frags, prof, fragOk))
        Start(normalizedDir, parsed) ==
            IF parsed.err
            THEN [err |-> "parse", errProfile |-> "", cfg |-> cfg,
                  frags |-> frags]
            ELSE Checked(normalizedDir,
                         DuplicateLoop(parsed.mappings, normalizedDir))
    IN  Start(NormalizedDir[dir], ParseMappings(cfg))

\* MapProfileToDirectory: the result and the two files afterwards
MapProfileToDirectory(cfg, frags, prof, dir, fragOk, writeOk) ==
    LET Added(gen, add) ==
            IF add.err
            THEN [err |-> "add_block", errProfile |-> "", cfg |-> cfg,
                  frags |-> gen.frags]
            ELSE [err |-> "", errProfile |-> "", cfg |-> add.cfg,
                  frags |-> gen.frags]
        Generated(normalizedDir, gen) ==
            IF gen.err
            THEN [err |-> "generate", errProfile |-> "", cfg |-> cfg,
                  frags |-> frags]
            ELSE Added(gen, addIncludeIfBlock(cfg, normalizedDir,
                                              gen.configPath, writeOk))
        Checked(normalizedDir, dup) ==
            IF dup.found
            THEN [err |-> "already_mapped", errProfile |-> dup.m.Profile,
                  cfg |-> cfg, frags |-> frags]
            ELSE Generated(normalizedDir,
                           generateProfileConfig(frags, prof, fragOk))
        Start(normalizedDir, parsed) ==
            IF parsed.err
            THEN [err |-> "parse", errProfile |-> "", cfg |-> cfg,
                  frags |-> frags]
            ELSE Checked(normalizedDir,
                         DuplicateLoop(parsed.mappings, normalizedDir))
    IN  Start(NormalizedDir[dir], ParseMappings(cfg))

UnmapDirectory(cfg, dir, writeOk) ==
    LET Result(rem) ==
            [err |-> IF rem.err THEN "remove_block" ELSE "", cfg |-> rem.cfg]
    IN  Result(removeIncludeIfBlock(cfg, NormalizedDir[dir], writeOk))

(***************************************************************************)
(* internal/profile/manager.go                                             *)
(***************************************************************************)
\* the index of the first profile of the list named name, 0 if there is none
RECURSIVE IndexOfName(_, _, _)
IndexOfName(list, name, i) ==
    IF i > Len(list) THEN 0
    ELSE IF list[i].Name = name THEN i
    ELSE IndexOfName(list, name, i + 1)

\* the key-path validation shared by AddProfile and UpdateProfile
KeyPathMissing(profile) ==
    /\ profile.SSHKeyPath # ""
    /\ ExpandPath(profile.SSHKeyPath) \notin KeyFiles

\* Manager.save / SaveProfiles: the file becomes the list, or the write fails
save(list, disk, saveOk) ==
    [err |-> IF saveOk THEN "" ELSE "save",
     disk |-> IF saveOk THEN list ELSE disk]

\* Manager.AddProfile
AddProfile(list, disk, profile, saveOk) ==
    IF IndexOfName(list, profile.Name, 1) # 0
    THEN [err |-> "exists", list |-> list, disk |-> disk]
    ELSE IF KeyPathMissing(profile)
    THEN [err |-> "no_key", list |-> list, disk |-> disk]
    ELSE LET newList == Append(list, profile)
             saved   == save(newList, disk, saveOk)
         IN  [err |-> saved.err, list |-> newList, disk |-> saved.disk]

\* Manager.UpdateProfile
UpdateProfile(list, disk, name, profile, saveOk) ==
    LET i == IndexOfName(list, name, 1)
    IN  IF i = 0
        THEN [err |-> "not_found", list |-> list, disk |-> disk]
        ELSE IF KeyPathMissing(profile)
        THEN [err |-> "no_key", list |-> list, disk |-> disk]
        ELSE LET newList == [list EXCEPT ![i] = profile]
                 saved   == save(newList, disk, saveOk)
             IN  [err |-> saved.err, list |-> newList, disk |-> saved.disk]

\* the removal loop of DeleteProfile
RECURSIVE WithoutName(_, _)
WithoutName(list, name) ==
    IF Len(list) = 0 THEN << >>
    ELSE IF Head(list).Name # name
    THEN << Head(list) >> \o WithoutName(Tail(list), name)
    ELSE WithoutName(Tail(list), name)

\* variant: the answer of the callback is not looked at
DeleteProfile_IgnoresMapped(list, disk, name, useCheck, isMapped, saveOk) ==
    IF IndexOfName(list, name, 1) = 0
    THEN [err |-> "not_found", list |-> list, disk |-> disk]
    ELSE IF useCheck /\ isMapped.err
    THEN [err |-> "check_failed", list |-> list, disk |-> disk]
    ELSE LET newList == WithoutName(list, name)
             saved   == save(newList, disk, saveOk)
         IN  [err |-> saved.err, list |-> newList, disk |-> saved.disk]

\* Manager.DeleteProfile; the callback isMapped is nil (useCheck false) or
\* returns the record isMapped = [err, mapped]
DeleteProfile(list, disk, name, useCheck, isMapped, saveOk) ==
    IF IndexOfName(list, name, 1) = 0
    THEN [err |-> "not_found", list |-> list, disk |-> disk]
    ELSE IF useCheck /\ isMapped.err
    THEN [err |-> "check_failed", list |-> list, disk |-> disk]
    ELSE IF useCheck /\ isMapped.mapped
    THEN [err |-> "mapped", list |-> list, disk |-> disk]
    ELSE LET newList == WithoutName(list, name)
             saved   == save(newList, disk, saveOk)
         IN  [err |-> saved.err, list |-> newList, disk |-> saved.disk]

(***************************************************************************)
(* cmd: the profile delete command                                         *)
(***************************************************************************)
\* the loop of the command over the directories of the profile: it stops at
\* the first UnmapDirectory that fails
RECURSIVE UnmapLoop(_, _, _, _)
UnmapLoop(cfg, directories, i, writeOk) ==
    IF i > Len(directories) THEN [err |-> "", cfg |-> cfg]
    ELSE LET After(r) ==
                 IF r.err # "" THEN [err |-> "unmap", cfg |-> r.cfg]
                 ELSE UnmapLoop(r.cfg, directories, i + 1, writeOk)
         IN  After(UnmapDirectory(cfg, directories[i], writeOk))

\* profileDeleteCmd.RunE: answer is the reply to the prompt; the callback
\* given to DeleteProfile always answers "not mapped"
profileDeleteCmd(list, disk, cfg, profileName, answer, writeOk, saveOk) ==
    LET Stop(err, c) ==
            [err |-> err, list |-> list, disk |-> disk, cfg |-> c]
        Deleted(c, del) ==
            [err |-> del.err, list |-> del.list, disk |-> del.disk, cfg |-> c]
        Unmapped(loop) ==
            IF loop.err # "" THEN Stop("unmap", loop.cfg)
            ELSE Deleted(loop.cfg,
                         DeleteProfile(list, disk, profileName, TRUE,
                                       [err |-> FALSE, mapped |-> FALSE],
                                       saveOk))
        Listed(dirs) ==
            IF dirs.err THEN Stop("check", cfg)
            ELSE IF Len(dirs.directories) > 0 /\ ~answer
            THEN Stop("cancelled", cfg)
            ELSE Unmapped(UnmapLoop(cfg, dirs.directories, 1, writeOk))
    IN  IF IndexOfName(list, profileName, 1) = 0 THEN Stop("not_found", cfg)
        ELSE Listed(GetDirectoriesForProfile(cfg, profileName))

(***************************************************************************)
(* The calls.                                                              *)
(***************************************************************************)
NoResult == [err |-> FALSE, found |-> FALSE, m |-> NoMapping]

\* the processes that run MapProfileToDirectory at the same time
Procs == {1, 2}

\* an invocation that has not started: pc is the statement it is at, read
\* is ~/.gitconfig as addIncludeIfBlock read it
NoInvocation ==
    [pc |-> "idle", prof |-> NoProfile, dir |-> "", io |-> "ok",
     err |-> "", errProfile |-> "", read |-> Absent, seq |-> 0]

NoCalls == [p \in Procs |-> NoInvocation]

NoCall ==
    [op |-> "none", prof |-> NoProfile, name |-> "", dir |-> "", io |-> "ok",
     configPath |-> "", form |-> "",
     err |-> "", errProfile |-> "", res |-> NoResult,
     mappings |-> << >>, directories |-> << >>, mapped |-> FALSE,
     profileName |-> "", answer |-> FALSE,
     pre |-> Absent, preProfiles |-> << >>]

\* io names the write that the environment lets fail during the call, if any
Map(prof, dir, io) ==
    \E r \in { MapProfileToDirectory(gitconfig, fragments, prof, dir,
                                      io # "fragment", io # "config") } :
        /\ gitconfig' = r.cfg
        /\ fragments' = r.frags
        /\ last' = [NoCall EXCEPT !.op = "map", !.prof = prof, !.dir = dir,
                       !.io = io, !.err = r.err, !.errProfile = r.errProfile,
                       !.pre = gitconfig, !.preProfiles = profiles]
        /\ UNCHANGED <<profiles, stored, calls>>

\* the map command: the profile is the one the manager holds under the name
MapStored(name, dir, io) ==
    /\ IndexOfName(profiles, name, 1) # 0
    /\ Map(profiles[IndexOfName(profiles, name, 1)], dir, io)

Unmap(dir, io) ==
    \E r \in { UnmapDirectory(gitconfig, dir, io # "config") } :
        /\ gitconfig' = r.cfg
        /\ last' = [NoCall EXCEPT !.op = "unmap", !.dir = dir, !.io = io,
                       !.err = r.err,
                       !.pre = gitconfig, !.preProfiles = profiles]
        /\ UNCHANGED <<fragments, profiles, stored, calls>>

Lookup(dir) ==
    /\ last' = [NoCall EXCEPT !.op = "lookup", !.dir = dir,
                   !.res = GetMappingForDirectory(gitconfig, dir),
                   !.pre = gitconfig, !.preProfiles = profiles]
    /\ UNCHANGED <<gitconfig, fragments, profiles, stored, calls>>

\* a call of GetDirectoriesForProfile
Directories(name) ==
    \E r \in { GetDirectoriesForProfile(gitconfig, name) } :
        /\ last' = [NoCall EXCEPT !.op = "directories", !.name = name,
                       !.err = IF r.err THEN "parse" ELSE "",
                       !.directories = r.directories,
                       !.pre = gitconfig, !.preProfiles = profiles]
        /\ UNCHANGED <<gitconfig, fragments, profiles, stored, calls>>

\* a call of IsProfileMapped
Mapped(name) ==
    \E r \in { IsProfileMapped(gitconfig, name) } :
        /\ last' = [NoCall EXCEPT !.op = "mapped", !.name = name,
                       !.err = IF r.err THEN "parse" ELSE "",
                       !.mapped = r.mapped,
                       !.pre = gitconfig, !.preProfiles = profiles]
        /\ UNCHANGED <<gitconfig, fragments, profiles, stored, calls>>

\* the fragment path of a profile name in one of the forms it takes: as
\* generateProfileConfig builds it, as ParseMappings expands it from the
\* path line addIncludeIfBlock writes, or a path without the fragment prefix
PathForms == {"written", "parsed", "other"}

ConfigPathOf(name, form) ==
    IF form = "written" THEN FragmentPath(name)
    ELSE IF form = "parsed"
    THEN ExpandedPathValue(TrimSpace(PathLine(TildePath(FragmentPath(name)))))
    ELSE PathJoin(GetHomeDir, "gitconfig-" \o name)

\* a call of extractProfileName
Extract(name, form) ==
    \E configPath \in { ConfigPathOf(name, form) } :
        /\ last' = [NoCall EXCEPT !.op = "extract", !.name = name,
                       !.form = form, !.configPath = configPath,
                       !.profileName = extractProfileName(configPath),
                       !.pre = gitconfig, !.preProfiles = profiles]
        /\ UNCHANGED <<gitconfig, fragments, profiles, stored, calls>>

\* a call of ParseMappings
Parse ==
    \E r \in { ParseMappings(gitconfig) } :
        /\ last' = [NoCall EXCEPT !.op = "parse",
                       !.err = IF r.err THEN "parse" ELSE "",
                       !.mappings = r.mappings,
                       !.pre = gitconfig, !.preProfiles = profiles]
        /\ UNCHANGED <<gitconfig, fragments, profiles, stored, calls>>

\* a call of addIncludeIfBlock with an already normalized directory
AddBlock(dir, configPath, io) ==
    \E r \in { addIncludeIfBlock(gitconfig, dir, configPath, io # "config") } :
        /\ gitconfig' = r.cfg
        /\ last' = [NoCall EXCEPT !.op = "add_block", !.dir = dir,
                       !.configPath = configPath, !.io = io,
                       !.err = IF r.err THEN "add_block" ELSE "",
                       !.pre = gitconfig, !.preProfiles = profiles]
        /\ UNCHANGED <<fragments, profiles, stored, calls>>

\* a call of removeIncludeIfBlock with an already normalized directory
RemoveBlock(dir, io) ==
    \E r \in { removeIncludeIfBlock(gitconfig, dir, io # "config") } :
        /\ gitconfig' = r.cfg
        /\ last' = [NoCall EXCEPT !.op = "remove_block", !.dir = dir,
                       !.io = io,
                       !.err = IF r.err THEN "remove_block" ELSE "",
                       !.pre = gitconfig, !.preProfiles = profiles]
        /\ UNCHANGED <<fragments, profiles, stored, calls>>

Add(profile, io) ==
    \E r \in { AddProfile(profiles, stored, profile, io # "save") } :
        /\ Len(profiles) < MaxProfiles
        /\ profiles' = r.list
        /\ stored' = r.disk
        /\ last' = [NoCall EXCEPT !.op = "add", !.prof = profile,
                       !.name = profile.Name, !.io = io, !.err = r.err,
                       !.pre = gitconfig, !.preProfiles = profiles]
        /\ UNCHANGED <<gitconfig, fragments, calls>>

Update(name, profile, io) ==
    \E r \in { UpdateProfile(profiles, stored, name, profile,
                              io # "save") } :
        /\ profiles' = r.list
        /\ stored' = r.disk
        /\ last' = [NoCall EXCEPT !.op = "update", !.prof = profile,
                       !.name = name, !.io = io, !.err = r.err,
                       !.pre = gitconfig, !.preProfiles = profiles]
        /\ UNCHANGED <<gitconfig, fragments, calls>>

Delete(name, useCheck, io) ==
    \E r \in { DeleteProfile(profiles, stored, name, useCheck,
                              IsProfileMapped(gitconfig, name),
                              io # "save") } :
        /\ profiles' = r.list
        /\ stored' = r.disk
        /\ last' = [NoCall EXCEPT !.op = "delete", !.name = name,
                       !.io = io, !.err = r.err,
                       !.pre = gitconfig, !.preProfiles = profiles]
        /\ UNCHANGED <<gitconfig, fragments, calls>>

\* the statements of MapProfileToDirectory in the order they run: the
\* duplicate check, generateProfileConfig, then the read and the write of
\* addIncludeIfBlock
StepAfter_UpsertFirst(pc) ==
    CASE pc = "check"    -> "read"
      [] pc = "read"     -> "write"
      [] pc = "write"    -> "generate"
      [] pc = "generate" -> "done"

StepAfter(pc) ==
    CASE pc = "check"    -> "generate"
      [] pc = "generate" -> "read"
      [] pc = "read"     -> "write"
      [] pc = "write"    -> "done"

\* variant: the lines are read again when they are written
UpsertWrite_Rereads(current, read, dir, configPath, writeOk) ==
    addIncludeIfBlock(current, dir, configPath, writeOk)

\* the second half of addIncludeIfBlock: the lines read earlier are changed
\* and written over ~/.gitconfig, whatever it holds by now
UpsertWrite(current, read, dir, configPath, writeOk) ==
    addIncludeIfBlock(read, dir, configPath, writeOk)

\* the duplicate check of one invocation: ParseMappings reads ~/.gitconfig
CheckStep(p, prof, dir, io) ==
    \E parsed \in { ParseMappings(gitconfig) } :
      \E dup \in { DuplicateLoop(parsed.mappings, NormalizedDir[dir]) } :
        /\ calls[p].pc = "idle"
        /\ calls' = [calls EXCEPT ![p] =
              [NoInvocation EXCEPT
                 !.prof = prof, !.dir = dir, !.io = io,
                 !.pc = IF parsed.err \/ dup.found THEN "done"
                        ELSE StepAfter("check"),
                 !.err = IF parsed.err THEN "parse"
                         ELSE IF dup.found THEN "already_mapped" ELSE "",
                 !.errProfile = IF ~parsed.err /\ dup.found
                                THEN dup.m.Profile ELSE ""]]
        /\ UNCHANGED <<gitconfig, fragments, profiles, stored, last>>

\* generateProfileConfig of one invocation: the fragment file is written
GenerateStep(p) ==
    /\ calls[p].pc = "generate"
    /\ \E gen \in { generateProfileConfig(fragments, calls[p].prof,
                                           calls[p].io # "fragment") } :
        /\ fragments' = gen.frags
        /\ calls' = [calls EXCEPT
              ![p].pc = IF gen.err THEN "done" ELSE StepAfter("generate"),
              ![p].err = IF gen.err THEN "generate" ELSE @]
        /\ UNCHANGED <<gitconfig, profiles, stored, last>>

\* addIncludeIfBlock of one invocation reads ~/.gitconfig
ReadStep(p) ==
    /\ calls[p].pc = "read"
    /\ calls' = [calls EXCEPT
          ![p].pc = IF gitconfig.kind = "dir" THEN "done"
                    ELSE StepAfter("read"),
          ![p].err = IF gitconfig.kind = "dir" THEN "add_block" ELSE @,
          ![p].read = gitconfig]
    /\ UNCHANGED <<gitconfig, fragments, profiles, stored, last>>

\* addIncludeIfBlock of one invocation changes the lines it has read and
\* writes them; seq numbers the writes of ~/.gitconfig
WriteStep(p) ==
    /\ calls[p].pc = "write"
    /\ \E r \in { UpsertWrite(gitconfig, calls[p].read,
                               NormalizedDir[calls[p].dir],
                               FragmentPath(calls[p].prof.Name),
                               calls[p].io # "config") } :
        /\ gitconfig' = IF r.err THEN gitconfig ELSE r.cfg
        /\ calls' = [calls EXCEPT
              ![p].pc = StepAfter("write"),
              ![p].err = IF r.err THEN "add_block" ELSE @,
              ![p].seq = IF r.err THEN 0
                         ELSE 1 + Cardinality({ q \in Procs :
                                                  calls[q].seq > 0 })]
        /\ UNCHANGED <<fragments, profiles, stored, last>>

\* a run of the profile delete command; the manager is loaded from the
\* profiles file
DeleteCommand(name, answer, io) ==
    \E r \in { profileDeleteCmd(stored, stored, gitconfig, name, answer,
                                 io # "config", io # "save") } :
        /\ gitconfig' = r.cfg
        /\ profiles' = r.list
        /\ stored' = r.disk
        /\ last' = [NoCall EXCEPT !.op = "delete_cmd", !.name = name,
                       !.answer = answer, !.io = io, !.err = r.err,
                       !.pre = gitconfig, !.preProfiles = stored]
        /\ UNCHANGED <<fragments, calls>>

(***************************************************************************)
(* Specifications.                                                         *)
(***************************************************************************)
RECURSIVE SeqsUpTo(_, _)
SeqsUpTo(S, n) ==
    IF n = 0 THEN { << >> }
    ELSE LET shorter == SeqsUpTo(S, n - 1)
         IN  shorter \cup { Append(q, x) : q \in shorter, x \in S }

\* states of ~/.gitconfig before the first call: absent, a directory, or a
\* file of at most MaxInitLines lines with or without a final newline
InitialConfigs ==
    { Absent, NotAFile }
    \cup { File(ls, TRUE) : ls \in SeqsUpTo(LinePool, MaxInitLines) \ {<< >>} }
    \cup { File(ls, FALSE) :
              ls \in { q \in SeqsUpTo(LinePool, MaxInitLines) :
                          Len(q) = 0 \/ q[Len(q)] # "" } }

NoFragments ==
    [q \in {FragmentPath(n) : n \in Names} |->
        [exists |-> FALSE, content |-> ""]]

InitRest ==
    /\ fragments = NoFragments
    /\ profiles = << >>
    /\ stored = << >>
    /\ last = NoCall
    /\ calls = NoCalls

\* the writes of one map call all succeed, or the write of the fragment
\* fails, or the write of ~/.gitconfig fails
MapOutcomes == {"ok", "fragment", "config"}

UnmapOutcomes == {"ok", "config"}

SaveOutcomes == {"ok", "save"}

\* the mapping calls on any ~/.gitconfig, hand-edited ones included
Init ==
    /\ gitconfig \in InitialConfigs
    /\ InitRest

Next ==
    \/ \E prof \in MapProfiles, dir \in MapDirs, io \in MapOutcomes :
          Map(prof, dir, io)
    \/ \E dir \in MapDirs, io \in UnmapOutcomes : Unmap(dir, io)
    \/ \E dir \in LookupDirs : Lookup(dir)

Spec == Init /\ [][Next]_vars

\* the mapping calls starting from an absent or empty ~/.gitconfig
InitEmpty ==
    /\ gitconfig \in { Absent, File(<< >>, FALSE) }
    /\ InitRest

SpecEmpty == InitEmpty /\ [][Next]_vars

\* the profile commands and the mapping commands of one manager
NextStore ==
    \/ \E profile \in ProfileInputs, io \in SaveOutcomes : Add(profile, io)
    \/ \E name \in Names, dir \in MapDirs, io \in MapOutcomes :
          MapStored(name, dir, io)
    \/ \E dir \in MapDirs, io \in UnmapOutcomes : Unmap(dir, io)
    \/ \E name \in Names, io \in SaveOutcomes : Delete(name, TRUE, io)

SpecStore == InitEmpty /\ [][NextStore]_vars

\* the calls of Manager
NextManager ==
    \/ \E profile \in ProfileInputs, io \in SaveOutcomes : Add(profile, io)
    \/ \E name \in Names, profile \in ProfileInputs, io \in SaveOutcomes :
          Update(name, profile, io)
    \/ \E name \in Names, useCheck \in BOOLEAN, io \in SaveOutcomes :
          Delete(name, useCheck, io)

SpecManager == InitEmpty /\ [][NextManager]_vars

\* the mapping calls and the two queries by profile name
NextQuery ==
    \/ \E prof \in MapProfiles, dir \in MapDirs, io \in MapOutcomes :
          Map(prof, dir, io)
    \/ \E dir \in MapDirs, io \in UnmapOutcomes : Unmap(dir, io)
    \/ \E name \in Names : Directories(name)
    \/ \E name \in Names : Mapped(name)

SpecQuery == Init /\ [][NextQuery]_vars

\* extractProfileName on the fragment paths of the profile names
NextExtract == \E name \in NameInputs, form \in PathForms : Extract(name, form)

SpecExtract == InitEmpty /\ [][NextExtract]_vars

\* the lines of the files given to the block editors: a blank line, the
\* header and the path line the editor writes, the header of another block
EditPool ==
    { "", HeaderLine("/a/b/"), PathLine(TildePath(FragmentPath("work"))),
      HeaderLine("/a/") }

EditDirs == { "/a/b/" }

EditPaths == { FragmentPath("work"), FragmentPath("home") }

EditConfigs ==
    { Absent, NotAFile }
    \cup { File(ls, TRUE) : ls \in SeqsUpTo(EditPool, MaxEditLines) \ {<< >>} }
    \cup { File(ls, FALSE) :
              ls \in { q \in SeqsUpTo(EditPool, MaxEditLines) :
                          Len(q) = 0 \/ q[Len(q)] # "" } }

InitEdit ==
    /\ gitconfig \in EditConfigs
    /\ InitRest

\* addIncludeIfBlock and removeIncludeIfBlock called directly
NextEdit ==
    \/ \E dir \in EditDirs, configPath \in EditPaths, io \in UnmapOutcomes :
          AddBlock(dir, configPath, io)
    \/ \E dir \in EditDirs, io \in UnmapOutcomes : RemoveBlock(dir, io)

SpecEdit == InitEdit /\ [][NextEdit]_vars

\* the lines of the files given to ParseMappings: a blank line, another
\* section, two headers of different directories, a path line
ParsePool ==
    { "", "[user]", "  [includeIf \"gitdir/i:/a/b\"]", HeaderLine("/a/"),
      PathLine(TildePath(FragmentPath("work"))) }

ParseConfigs ==
    { Absent, NotAFile }
    \cup { File(ls, TRUE) : ls \in SeqsUpTo(ParsePool, MaxParseLines) \ {<< >>} }
    \cup { File(ls, FALSE) :
              ls \in { q \in SeqsUpTo(ParsePool, MaxParseLines) :
                          Len(q) = 0 \/ q[Len(q)] # "" } }

InitParse ==
    /\ gitconfig \in ParseConfigs
    /\ InitRest

\* ParseMappings called on any file
NextParse == Parse

SpecParse == InitParse /\ [][NextParse]_vars

\* UnmapDirectory and ParseMappings on any ~/.gitconfig
NextUnmap ==
    \/ \E dir \in MapDirs, io \in UnmapOutcomes : Unmap(dir, io)
    \/ Parse

SpecUnmap == InitEdit /\ [][NextUnmap]_vars

\* the lines of the files given to GetMappingForDirectory: the headers of
\* /a/b and of the directory named with a backslash, a path line
LookupPool ==
    { "  [includeIf \"gitdir/i:/a/b\"]", HeaderLine("/a/b\\"),
      PathLine(TildePath(FragmentPath("work"))) }

LookupConfigs ==
    { Absent, NotAFile }
    \cup { File(ls, TRUE) : ls \in SeqsUpTo(LookupPool, MaxParseLines) \ {<< >>} }
    \cup { File(ls, FALSE) : ls \in SeqsUpTo(LookupPool, MaxParseLines) }

InitLookup ==
    /\ gitconfig \in LookupConfigs
    /\ InitRest

\* GetMappingForDirectory called on any file
NextLookup == \E dir \in LookupDirs \cup BackslashDirs : Lookup(dir)

SpecLookup == InitLookup /\ [][NextLookup]_vars

\* two map invocations whose file operations interleave, each operation
\* on a file taken as one step
NextRace ==
    \/ \E p \in Procs, prof \in MapProfiles, dir \in MapDirs,
          io \in MapOutcomes : CheckStep(p, prof, dir, io)
    \/ \E p \in Procs : GenerateStep(p)
    \/ \E p \in Procs : ReadStep(p)
    \/ \E p \in Procs : WriteStep(p)

SpecRace == InitEmpty /\ [][NextRace]_vars

DeleteOutcomes == {"ok", "config", "save"}

\* the delete command on any ~/.gitconfig, with both profiles stored
InitDelete ==
    /\ gitconfig \in EditConfigs
    /\ fragments = NoFragments
    /\ profiles = << >>
    /\ stored \in { << p, q >> : p \in { m \in MapProfiles : m.Name = "work" },
                                  q \in { m \in MapProfiles : m.Name = "home" } }
    /\ last = NoCall
    /\ calls = NoCalls

NextDelete ==
    \E name \in Names, answer \in BOOLEAN, io \in DeleteOutcomes :
        DeleteCommand(name, answer, io)

SpecDelete == InitDelete /\ [][NextDelete]_vars

(***************************************************************************)
(* Vocabulary of the properties.                                           *)
(***************************************************************************)
\* the mappings ParseMappings returns for a file
Parsed(cfg) == ParseMappings(cfg).mappings

\* the positions of the mappings of a list for a directory
MappingsFor(ms, dir) == { i \in 1..Len(ms) : ms[i].Directory = dir }

\* the positions of the header lines of a file that refer to a directory
HeadersFor(cfg, dir) ==
    { i \in 1..Len(cfg.lines) :
         /\ IncludeIfMatches(cfg.lines[i])
         /\ EnsureTrailingSlash(NormalizePath(IncludeIfDir(cfg.lines[i])))
               = dir }

Least(S) == CHOOSE i \in S : \A j \in S : i <= j

\* the normalized, slash-terminated directory of the last call
LastDir == EnsureTrailingSlash(NormalizePath(last.dir))

NamesOf(list) == { list[i].Name : i \in 1..Len(list) }

\* the lines of a sequence without the lines at the indices of drop
KeepLines(lines, drop) ==
    LET kept == (1..Len(lines)) \ drop
        Nth(k) == CHOOSE i \in kept :
                      Cardinality({ j \in kept : j <= i }) = k
    IN  [k \in 1..Cardinality(kept) |-> lines[Nth(k)]]

IsBlank(line) == LineFacts[line].trimmed = ""

\* what a line is to ParseMappings
ParseKind(line) ==
    LET Kind(facts) ==
            IF facts.parseHeader THEN "header"
            ELSE IF facts.parsePath THEN "path"
            ELSE IF facts.parseSection THEN "section"
            ELSE "other"
    IN  Kind(LineFacts[line])

\* the header ParseMappings is awaiting a path line for when it reads line j:
\* the nearest header before j with no header, path line or other section
\* header in between (the empty set when there is none)
AwaitedHeader(lines, j) ==
    { h \in 1..(j - 1) :
         /\ ParseKind(lines[h]) = "header"
         /\ \A k \in (h + 1)..(j - 1) : ParseKind(lines[k]) = "other" }

\* the path lines read while a header is awaited, and the headers they
\* complete
EmittingLines(lines) ==
    { j \in 1..Len(lines) :
         ParseKind(lines[j]) = "path" /\ AwaitedHeader(lines, j) # {} }

PairedHeaders(lines) ==
    UNION { AwaitedHeader(lines, j) : j \in EmittingLines(lines) }

\* the k-th smallest element of a set of numbers
NthOf(S, k) == CHOOSE i \in S : Cardinality({ j \in S : j <= i }) = k

\* the indices of the headers for dir, of the lines right after them, and
\* of the blank lines right before them
HeaderLines(lines, dir) ==
    { i \in 1..Len(lines) : HeaderIsFor(lines[i], dir) }

FollowerLines(lines, dir) ==
    { i \in 2..Len(lines) : HeaderIsFor(lines[i - 1], dir) }

BlankBeforeHeader(lines, dir) ==
    { i \in 1..(Len(lines) - 1) :
         IsBlank(lines[i]) /\ HeaderIsFor(lines[i + 1], dir) }

(***************************************************************************)
(* C1: when MapProfileToDirectory(P, D) succeeds, ParseMappings() right    *)
(* after it returns exactly one mapping whose Directory is the normalized, *)
(* slash-terminated D, and its Profile is P.Name.                          *)
(***************************************************************************)
C1_MapThenParse ==
    (last.op = "map" /\ last.err = "") =>
        LET ms == Parsed(gitconfig)
        IN  /\ ~ParseMappings(gitconfig).err
            /\ Cardinality(MappingsFor(ms, LastDir)) = 1
            /\ \A i \in MappingsFor(ms, LastDir) :
                  ms[i].Profile = last.prof.Name

\* a map succeeded on a file that already had the other directory mapped
\* through the link and a header for this directory (without a path line)
C1_Witness ==
    /\ last.op = "map" /\ last.err = ""
    /\ last.dir = "/a/b/"
    /\ HeadersFor(last.pre, "/a/b/") # {}
    /\ MappingsFor(Parsed(last.pre), "/a/") # {}

(***************************************************************************)
(* C2: if D is mapped to P1, MapProfileToDirectory(P2, D) with another     *)
(* profile name returns the error naming P1 and leaves ~/.gitconfig        *)
(* exactly as it was.                                                      *)
(***************************************************************************)
C2_ConflictRejected ==
    LET ms  == Parsed(last.pre)
        old == MappingsFor(ms, LastDir)
    IN  (/\ last.op = "map"
         /\ old # {}
         /\ ms[Least(old)].Profile # last.prof.Name) =>
            /\ last.err = "already_mapped"
            /\ last.errProfile = ms[Least(old)].Profile
            /\ gitconfig = last.pre
            /\ Parsed(gitconfig)[Least(old)].Profile = ms[Least(old)].Profile

\* profile work was rejected for a directory that is mapped to profile home
C2_Witness ==
    /\ last.op = "map" /\ last.err = "already_mapped"
    /\ last.prof.Name = "work" /\ last.errProfile = "home"

(***************************************************************************)
(* C3: starting from an absent or empty ~/.gitconfig, after any map and    *)
(* unmap calls the file has at most one includeIf header per normalized    *)
(* directory and ParseMappings() returns at most one mapping per           *)
(* directory.                                                              *)
(***************************************************************************)
C3_OneBlockPerDirectory ==
    \A d \in { EnsureTrailingSlash(NormalizePath(x)) : x \in MapDirs } :
        /\ Cardinality(HeadersFor(gitconfig, d)) <= 1
        /\ Cardinality(MappingsFor(Parsed(gitconfig), d)) <= 1

\* both directories are mapped and a further map of one of them just failed
C3_Witness ==
    /\ last.op = "map" /\ last.err = "already_mapped"
    /\ \A d \in { EnsureTrailingSlash(NormalizePath(x)) : x \in MapDirs } :
          Cardinality(HeadersFor(gitconfig, d)) = 1
(***************************************************************************)
(* C4: for every content F of ~/.gitconfig in which D is not mapped, a     *)
(* successful map(P, D) followed by a successful unmap(D) leaves no        *)
(* mapping for D and a file whose content equals F.                        *)
(***************************************************************************)
C4_MapUnmapRestores ==
    [][ (/\ last.op = "map" /\ last.err = "" /\ last.pre.kind = "file"
         /\ last'.op = "unmap" /\ last'.err = ""
         /\ LastDir' = LastDir) =>
            /\ MappingsFor(Parsed(gitconfig'), LastDir) = {}
            /\ gitconfig' = last.pre ]_vars

(***************************************************************************)
(* C5: when no includeIf header of ~/.gitconfig refers to D,               *)
(* UnmapDirectory(D) succeeds and the content of the file afterwards is    *)
(* identical to its content before.                                        *)
(***************************************************************************)
C5_UnmapUnmappedIsNoOp ==
    (/\ last.op = "unmap" /\ last.io = "ok" /\ last.pre.kind = "file"
     /\ HeadersFor(last.pre, LastDir) = {}) =>
        /\ last.err = ""
        /\ FileBytes(gitconfig) = FileBytes(last.pre)

(***************************************************************************)
(* C6: a second MapProfileToDirectory(P, D) with the same profile and the  *)
(* same directory creates no second block: the file that had exactly one   *)
(* includeIf header for D still has exactly one afterwards.                *)
(***************************************************************************)
C6_RemapAddsNoBlock ==
    LET ms  == Parsed(last.pre)
        old == MappingsFor(ms, LastDir)
    IN  (/\ last.op = "map"
         /\ Cardinality(HeadersFor(last.pre, LastDir)) = 1
         /\ \E i \in old : ms[i].Profile = last.prof.Name) =>
            /\ Cardinality(HeadersFor(gitconfig, LastDir)) = 1
            /\ Cardinality(MappingsFor(Parsed(gitconfig), LastDir)) = 1

\* profile work was mapped again, through the link, to the directory it is
\* mapped to, with every write allowed to succeed
C6_Witness ==
    /\ last.op = "map" /\ last.io = "ok" /\ last.dir = LinkPath
    /\ last.prof.Name = "work"
    /\ \E i \in MappingsFor(Parsed(last.pre), "/a/") :
          Parsed(last.pre)[i].Profile = "work"
    /\ Cardinality(HeadersFor(gitconfig, "/a/")) = 1

C8_ExactThenFirstPrefix ==
    LET ms       == Parsed(last.pre)
        exact    == MappingsFor(ms, LastDir)
        prefixes == { i \in 1..Len(ms) : HasPrefix(LastDir, ms[i].Directory) }
    IN  (last.op = "lookup" /\ ~ParseMappings(last.pre).err) =>
            /\ ~last.res.err
            /\ exact # {} =>
                  last.res.found /\ last.res.m = ms[Least(exact)]
            /\ (exact = {} /\ prefixes # {}) =>
                  last.res.found /\ last.res.m = ms[Least(prefixes)]
            /\ (exact = {} /\ prefixes = {}) =>
                  ~last.res.found /\ last.res.m = NoMapping

\* the lookup of /a/b returned the mapping of /a/b/, which stands in the
\* file after the mapping of its parent /a/
C8_Witness ==
    /\ last.op = "lookup" /\ last.dir = "/a/b"
    /\ last.res.found /\ last.res.m.Directory = "/a/b/"
    /\ Len(Parsed(last.pre)) = 2
    /\ Parsed(last.pre)[1].Directory = "/a/"
(***************************************************************************)
(* C9: starting from an empty store and an empty ~/.gitconfig, with        *)
(* AddProfile, map of a stored profile, unmap and DeleteProfile guarded by *)
(* IsProfileMapped: deleting a profile that is mapped to a directory fails *)
(* and leaves the list unchanged, every parsed mapping names a profile of  *)
(* the list, and a profile none of whose directories is mapped any more is *)
(* deleted.                                                                *)
(***************************************************************************)
C9_MappedProfileNotDeleted ==
    LET before == Parsed(last.pre)
        mapped == \E i \in 1..Len(before) : before[i].Profile = last.name
    IN  /\ \A i \in 1..Len(Parsed(gitconfig)) :
              Parsed(gitconfig)[i].Profile \in NamesOf(profiles)
        /\ (last.op = "delete" /\ mapped) =>
              /\ last.err = "mapped"
              /\ profiles = last.preProfiles
        /\ (/\ last.op = "delete" /\ ~mapped /\ last.io = "ok"
            /\ last.name \in NamesOf(last.preProfiles)) =>
              /\ last.err = ""
              /\ last.name \notin NamesOf(profiles)

\* the delete of profile work was refused while both directories are mapped,
\* one of them to work
C9_Witness ==
    /\ last.op = "delete" /\ last.err = "mapped" /\ last.name = "work"
    /\ Len(Parsed(gitconfig)) = 2
    /\ "work" \in NamesOf(profiles)

(***************************************************************************)
(* C10: after any AddProfile, UpdateProfile and DeleteProfile calls no two *)
(* profiles of the manager's list have the same Name, and UpdateProfile    *)
(* leaves the updated entry under the name it was stored under.            *)
(***************************************************************************)
C10_NamesUnique ==
    /\ \A i, j \in 1..Len(profiles) :
          i # j => profiles[i].Name # profiles[j].Name
    /\ (last.op = "update" /\ last.err = "") =>
          NamesOf(profiles) = NamesOf(last.preProfiles)
(***************************************************************************)
(* C11: the fragment written for a profile has as its user name the        *)
(* author name of the profile when that is not empty and the profile name  *)
(* otherwise; it has a signingkey line only if the signing-key id is not   *)
(* empty and a core sshCommand section only if the key-file path is not    *)
(* empty.                                                                  *)
(***************************************************************************)
C11_FragmentContent ==
    (last.op = "map" /\ last.err \in {"", "add_block"}) =>
        \E c \in { fragments[FragmentPath(last.prof.Name)].content } :
            /\ IndexFrom(c, "[user]\n    name = "
                                \o GetAuthorName(last.prof) \o "\n", 1) = 1
            /\ (IndexFrom(c, "    signingkey = ", 1) # 0)
                   <=> (last.prof.GPGKeyID # "")
            /\ (IndexFrom(c, "[core]\n    sshCommand = ", 1) # 0)
                   <=> (last.prof.SSHKeyPath # "")
(***************************************************************************)
(* C12: GetDirectoriesForProfile(p) returns exactly the directories of the *)
(* parsed mappings whose Profile is p, in file order, and                  *)
(* IsProfileMapped(p) is true exactly when there is such a mapping; both   *)
(* answer from the content ~/.gitconfig has at the time of the call.       *)
(***************************************************************************)
C12_DirectoriesOfProfile ==
    LET ms     == Parsed(last.pre)
        idx    == { i \in 1..Len(ms) : ms[i].Profile = last.name }
        Nth(k) == CHOOSE i \in idx : Cardinality({ j \in idx : j <= i }) = k
    IN  /\ (last.op = "directories" /\ ~ParseMappings(last.pre).err) =>
              /\ last.err = ""
              /\ Len(last.directories) = Cardinality(idx)
              /\ \A k \in 1..Len(last.directories) :
                    last.directories[k] = ms[Nth(k)].Directory
        /\ (last.op = "mapped" /\ ~ParseMappings(last.pre).err) =>
              /\ last.err = ""
              /\ last.mapped <=> idx # {}

\* the directories of profile work were asked for after maps and an unmap,
\* when the first mapping of the file is one of profile home
C12_Witness ==
    /\ last.op = "directories" /\ last.name = "work"
    /\ Len(Parsed(last.pre)) = 2
    /\ Parsed(last.pre)[1].Profile = "home"
    /\ last.directories = << Parsed(last.pre)[2].Directory >>
    /\ fragments[FragmentPath("work")].exists
    /\ fragments[FragmentPath("home")].exists
(***************************************************************************)
(* C13: for every profile name n that is a valid part of a file name,      *)
(* extractProfileName of the fragment path written for n returns n, also   *)
(* after the path was shortened to its ~ form and expanded again by the    *)
(* parser; a path whose base name does not start with the fragment prefix  *)
(* yields the empty string.                                                *)
(***************************************************************************)
C13_ExtractRoundTrip ==
    (last.op = "extract") =>
        /\ last.form \in {"written", "parsed"} => last.profileName = last.name
        /\ ~HasPrefix(Base(last.configPath), ".gitconfig-") =>
               last.profileName = ""

\* the name a-. came back from the path line written for its fragment
C13_Witness ==
    /\ last.op = "extract" /\ last.form = "parsed"
    /\ last.name = "a-." /\ last.profileName = "a-."
    /\ last.configPath = "/h/.gitconfig-a-."
(***************************************************************************)
(* C14: removeIncludeIfBlock(D) writes back the input lines in their       *)
(* order, none added or altered, and drops only headers for D, the line    *)
(* right after such a header and a blank line right before such a header.  *)
(***************************************************************************)
C14_RemoveFrame ==
    (last.op = "remove_block" /\ last.err = "") =>
        \E drop \in SUBSET (HeaderLines(last.pre.lines, last.dir)
                             \cup FollowerLines(last.pre.lines, last.dir)
                             \cup BlankBeforeHeader(last.pre.lines, last.dir)) :
            gitconfig = WriteFile(KeepLines(last.pre.lines, drop))

(***************************************************************************)
(* C15: the blank-line cleanup of removeIncludeIfBlock never deletes a     *)
(* blank line that does not immediately precede a dropped header: every    *)
(* blank line missing from the written lines is the line right before a    *)
(* header for D or the line right after one.                               *)
(***************************************************************************)
C15_NoCascade ==
    (last.op = "remove_block" /\ last.err = "") =>
        \E drop \in SUBSET ({ i \in 1..Len(last.pre.lines) :
                                 ~IsBlank(last.pre.lines[i]) }
                             \cup FollowerLines(last.pre.lines, last.dir)
                             \cup BlankBeforeHeader(last.pre.lines, last.dir)) :
            gitconfig = WriteFile(KeepLines(last.pre.lines, drop))

(***************************************************************************)
(* C16: addIncludeIfBlock(D, path) on a file whose one header for D is     *)
(* immediately followed by a path line rewrites only that path line, to    *)
(* the fragment path in its ~ form: afterwards the file has one header for *)
(* D, as many lines as before, and every other line is unchanged.          *)
(***************************************************************************)
C16_RewriteInPlace ==
    (/\ last.op = "add_block" /\ last.err = "" /\ last.pre.kind = "file"
     /\ Cardinality(HeaderLines(last.pre.lines, last.dir)) = 1
     /\ \A h \in HeaderLines(last.pre.lines, last.dir) :
            /\ h < Len(last.pre.lines)
            /\ LineFacts[last.pre.lines[h + 1]].editPath) =>
        \A h \in HeaderLines(last.pre.lines, last.dir) :
            /\ Cardinality(HeaderLines(gitconfig.lines, last.dir)) = 1
            /\ Len(gitconfig.lines) = Len(last.pre.lines)
            /\ gitconfig.lines[h + 1] = PathLine(TildePath(last.configPath))
            /\ \A j \in (1..Len(last.pre.lines)) \ {h + 1} :
                   gitconfig.lines[j] = last.pre.lines[j]

(***************************************************************************)
(* C17: addIncludeIfBlock(D, path) on a file with no header for D that is  *)
(* immediately followed by a path line leaves the existing lines unchanged *)
(* and appends exactly a blank line, the header for D and the path line;   *)
(* a missing file is treated as an empty list of lines and created.        *)
(***************************************************************************)
C17_AppendBlock ==
    (/\ last.op = "add_block" /\ last.err = ""
     /\ \A h \in HeaderLines(last.pre.lines, last.dir) :
            \/ h = Len(last.pre.lines)
            \/ ~LineFacts[last.pre.lines[h + 1]].editPath) =>
        /\ gitconfig.kind = "file"
        /\ gitconfig.lines =
              last.pre.lines \o << "", HeaderLine(last.dir),
                                  PathLine(TildePath(last.configPath)) >>

\* the header for D was there, followed by a blank line instead of a path
\* line, and the block was appended below
C17_Witness ==
    /\ last.op = "add_block" /\ last.err = ""
    /\ last.pre = File(<< HeaderLine("/a/b/"), "" >>, TRUE)
    /\ gitconfig.lines =
          << HeaderLine("/a/b/"), "", "", HeaderLine("/a/b/"),
             PathLine("~/.gitconfig-home") >>

C18_SecondHeaderOverwrites ==
    (last.op = "parse" /\ last.err = "") =>
        /\ Len(last.mappings) = Cardinality(PairedHeaders(last.pre.lines))
        /\ \A k \in 1..Len(last.mappings) :
               last.mappings[k].Directory =
                   LineFacts[last.pre.lines[
                       NthOf(PairedHeaders(last.pre.lines), k)]].parseDir

\* two headers of different directories, then a path line
C18_Witness ==
    /\ last.op = "parse" /\ last.err = ""
    /\ last.pre.lines = << "  [includeIf \"gitdir/i:/a/b\"]",
                           HeaderLine("/a/"),
                           PathLine("~/.gitconfig-work") >>
    /\ last.mappings = << [Directory |-> "/a/", Profile |-> "work",
                           ConfigPath |-> "/h/.gitconfig-work"] >>

(***************************************************************************)
(* C19: in ParseMappings a line starting with [ that is no includeIf       *)
(* header, seen while a header awaits its path line, discards the pending  *)
(* directory without a mapping, and a path line becomes a mapping only     *)
(* when a header is awaited: the mappings are, in order, exactly the path  *)
(* lines read while a header is awaited.                                   *)
(***************************************************************************)
C19_SectionDiscards ==
    (last.op = "parse" /\ last.err = "") =>
        /\ Len(last.mappings) = Cardinality(EmittingLines(last.pre.lines))
        /\ \A k \in 1..Len(last.mappings) :
               /\ last.mappings[k].ConfigPath =
                      LineFacts[last.pre.lines[
                          NthOf(EmittingLines(last.pre.lines), k)]].parseConfig
               /\ last.mappings[k].Profile =
                      LineFacts[last.pre.lines[
                          NthOf(EmittingLines(last.pre.lines), k)]].parseProfile

\* a header, another section, then a path line: no mapping
C19_Witness ==
    /\ last.op = "parse" /\ last.err = ""
    /\ last.pre.lines = << HeaderLine("/a/"), "[user]",
                           PathLine("~/.gitconfig-work") >>
    /\ last.mappings = << >>

(***************************************************************************)
(* C23: for every profile p and every content of ~/.gitconfig, the delete  *)
(* command's calls of UnmapDirectory on the directories returned by        *)
(* GetDirectoriesForProfile(p), in that order, all succeed and leave       *)
(* IsProfileMapped(p) false before DeleteProfile runs.                     *)
(***************************************************************************)
C23_UnmapAllUnmaps ==
    (/\ last.op = "delete_cmd" /\ last.io = "ok" /\ last.answer
     /\ last.name \in NamesOf(last.preProfiles)
     /\ last.pre.kind # "dir") =>
        /\ last.err = ""
        /\ ~IsProfileMapped(gitconfig, last.name).mapped

C28_TrailingSeparator ==
    LET ms == Parsed(last.pre)
    IN  (last.op = "lookup" /\ ~ParseMappings(last.pre).err) =>
            /\ \A i \in 1..Len(ms) : HasSuffix(ms[i].Directory, "/")
            /\ last.res.found =>
                   /\ HasSuffix(last.res.m.Directory, "/")
                   /\ HasPrefix(NormalizedDir[last.dir], last.res.m.Directory)
            /\ MappingsFor(ms, NormalizedDir[last.dir]) # {} =>
                   /\ last.res.found
                   /\ last.res.m.Directory = NormalizedDir[last.dir]

(***************************************************************************)
(* C29: a MapProfileToDirectory call that fails because the directory is   *)
(* already mapped performs no write: neither ~/.gitconfig nor any fragment *)
(* file, that of the rejected profile included, is created or overwritten. *)
(***************************************************************************)
C29_RejectedMapWritesNothing ==
    [][ (last'.op = "map" /\ last'.err = "already_mapped") =>
            /\ gitconfig' = gitconfig
            /\ fragments' = fragments ]_vars

\* profile home was rejected for a directory mapped to work, and its
\* fragment file still does not exist
C29_Witness ==
    /\ last.op = "map" /\ last.err = "already_mapped" /\ last.io = "ok"
    /\ last.prof.Name = "home" /\ last.errProfile = "work"
    /\ ~fragments[FragmentPath("home")].exists
    /\ fragments[FragmentPath("work")].exists

(***************************************************************************)
(* C30: a call of Manager.AddProfile, UpdateProfile or DeleteProfile that  *)
(* returns an error, whatever the error, leaves the list returned by       *)
(* ListProfiles exactly as it was before the call.                         *)
(***************************************************************************)
C30_ErrorLeavesList ==
    (last.op \in {"add", "update", "delete"} /\ last.err # "") =>
        profiles = last.preProfiles

(***************************************************************************)
(* C21: within one map call the duplicate check runs first, then the       *)
(* fragment file is written, then ~/.gitconfig is modified: whenever       *)
(* ~/.gitconfig holds a block written by map, the fragment it points to    *)
(* has been written; only a call that has passed the check writes the      *)
(* fragment and only one whose fragment is written writes ~/.gitconfig; a  *)
(* failed fragment write leaves ~/.gitconfig alone, and a failed write of  *)
(* ~/.gitconfig leaves the fragment in place.                              *)
(***************************************************************************)
C21_FragmentBeforeBlock ==
    /\ [](/\ \A i \in 1..Len(Parsed(gitconfig)) :
               fragments[Parsed(gitconfig)[i].ConfigPath].exists
          /\ \A p \in Procs :
               /\ calls[p].err = "generate" =>
                      calls[p].pc = "done" /\ calls[p].seq = 0
               /\ calls[p].err = "add_block" =>
                      fragments[FragmentPath(calls[p].prof.Name)] =
                          [exists  |-> TRUE,
                           content |-> FragmentContent(calls[p].prof)])
    /\ [][ /\ gitconfig' # gitconfig =>
                \E p \in Procs :
                    /\ calls[p].pc = "write" /\ calls'[p].pc = "done"
                    /\ fragments[FragmentPath(calls[p].prof.Name)].exists
           /\ fragments' # fragments =>
                \E p \in Procs :
                    /\ calls[p].pc = "generate" /\ calls[p].err = ""
                    /\ calls'[p].pc = "read"
                    /\ gitconfig' = gitconfig
           /\ \A p \in Procs :
                (calls[p].err = "" /\ calls'[p].err = "generate") =>
                    gitconfig' = gitconfig /\ fragments' = fragments ]_vars

\* the write of ~/.gitconfig failed after the fragment of the profile was
\* written: the fragment stays, the file has no block
C21_Witness ==
    \E p \in Procs :
        /\ calls[p].pc = "done" /\ calls[p].err = "add_block"
        /\ calls[p].prof.Name = "work"
        /\ fragments[FragmentPath("work")].exists
        /\ Parsed(gitconfig) = << >>

(***************************************************************************)
(* C22: when two map invocations for different directories interleave the  *)
(* read and the write of ~/.gitconfig, the file is exactly what the last   *)
(* writer wrote, the lines it had read followed by its own block, and no   *)
(* invocation detects the race: without a failing write both return        *)
(* success.                                                                *)
(***************************************************************************)
C22_LastWriterWins ==
    (\A p, q \in Procs :
        (p # q /\ calls[p].pc # "idle" /\ calls[q].pc # "idle") =>
            NormalizedDir[calls[p].dir] # NormalizedDir[calls[q].dir]) =>
        \A p \in Procs :
            /\ (calls[p].pc = "done" /\ calls[p].io = "ok") =>
                   calls[p].err = ""
            /\ (calls[p].seq > 0
                /\ \A q \in Procs : calls[q].seq <= calls[p].seq) =>
                   gitconfig.lines =
                       calls[p].read.lines
                       \o << "", HeaderLine(NormalizedDir[calls[p].dir]),
                             PathLine(TildePath(
                                 FragmentPath(calls[p].prof.Name))) >>

\* both invocations returned success and the block of the first writer is
\* not in the file
C22_Witness ==
    /\ \A p \in Procs : calls[p].pc = "done" /\ calls[p].err = ""
    /\ calls[1].seq = 1 /\ calls[2].seq = 2
    /\ NormalizedDir[calls[1].dir] # NormalizedDir[calls[2].dir]
    /\ HeaderLines(gitconfig.lines, NormalizedDir[calls[1].dir]) = {}
    /\ HeaderLines(gitconfig.lines, NormalizedDir[calls[2].dir]) # {}

(***************************************************************************)
(* C27, as claimed: of two concurrent MapProfileToDirectory invocations    *)
(* for the same directory with different profiles at most one returns      *)
(* success.                                                                *)
(***************************************************************************)
C27_AtMostOneSucceeds ==
    \A p, q \in Procs :
        (/\ p # q
         /\ calls[p].pc = "done" /\ calls[q].pc = "done"
         /\ NormalizedDir[calls[p].dir] = NormalizedDir[calls[q].dir]
         /\ calls[p].prof.Name # calls[q].prof.Name) =>
            ~(calls[p].err = "" /\ calls[q].err = "")

(***************************************************************************)
(* C27, amended: an invocation is rejected as a duplicate exactly when the *)
(* directory is mapped in ~/.gitconfig at the moment its own ParseMappings *)
(* reads the file, so of two concurrent invocations for the same directory *)
(* with different profiles both can return success; the directory then     *)
(* points at the fragment of the invocation that wrote ~/.gitconfig last.  *)
(***************************************************************************)
C27_LastWriterOwnsDirectory ==
    /\ [](\A p, q \in Procs :
            (/\ p # q
             /\ calls[p].pc # "idle" /\ calls[q].pc # "idle"
             /\ NormalizedDir[calls[p].dir] = NormalizedDir[calls[q].dir]
             /\ calls[p].prof.Name # calls[q].prof.Name
             /\ calls[p].seq > calls[q].seq) =>
                LET ms == Parsed(gitconfig)
                    at == MappingsFor(ms, NormalizedDir[calls[p].dir])
                IN  /\ at # {}
                    /\ \A i \in at : ms[i].Profile = calls[p].prof.Name)
    /\ [][ \A p \in Procs :
              (calls[p].pc = "idle" /\ calls'[p].pc # "idle") =>
                  (calls'[p].err = "already_mapped"
                   <=> MappingsFor(Parsed(gitconfig),
                                   NormalizedDir[calls'[p].dir]) # {}) ]_vars

\* both invocations returned success; home wrote last and owns the directory
\* that work had been given
C27_Witness ==
    /\ \A p \in Procs : calls[p].pc = "done" /\ calls[p].err = ""
    /\ calls[1].dir = "/a/b/" /\ calls[2].dir = "/a/b/"
    /\ calls[1].prof.Name = "work" /\ calls[2].prof.Name = "home"
    /\ calls[1].seq = 1 /\ calls[2].seq = 2
    /\ Len(Parsed(gitconfig)) = 1
    /\ Parsed(gitconfig)[1].Profile = "home"

====
